---- MODULE Spec2Model ----
(***************************************************************************)
(* Model of examples/pytorch/gcn/gcn_spmv.py: the GCN layer written with   *)
(* the graph library's update_all (GCNLayer), the variant that hands the   *)
(* aggregation to a ContextManager scope (EglGCNLayer), and the two        *)
(* networks GCN / EglGCN that stack them.                                  *)
(*                                                                         *)
(* Tensors are tuples of rows, a row is a tuple of integers (the integers  *)
(* stand for the reals of the program: every operation used is a ring      *)
(* operation or max(0, x)).  norm is an N x 1 tensor, a bias is a row,     *)
(* None is the empty tuple.                                                *)
(***************************************************************************)
EXTENDS Integers, Sequences, FiniteSets, TLC

\* ---------------------------------------------------------------- bounds
NumNodes == 2
MaxEdges == 2
MaxLayers == 2
MaxWidth == 2

Nodes == 1..NumNodes

\* value domains of the inputs: entries of the feature matrix, of a weight and
\* of a bias, the activation argument, the dropout argument p in percent
\* (0 is "no dropout", 50 is nn.Dropout(p=0.5))
FeatVals == {0, 1}
WeightVals == {-1, 2}
BiasVals == {1}
Activations == {"None", "relu"}
DropoutArgs == {0, 50}

None == << >>

\* ---------------------------------------------------------------- tensors
RECURSIVE SumTo(_, _)
SumTo(f, n) == IF n = 0 THEN 0 ELSE f[n] + SumTo(f, n - 1)

Zeros(w) == [j \in 1..w |-> 0]

\* elementwise product of two rows, a row of width 1 is broadcast
RowMul(a, b) ==
    LET w == IF Len(a) >= Len(b) THEN Len(a) ELSE Len(b)
    IN  [j \in 1..w |-> a[IF Len(a) = 1 THEN 1 ELSE j] * b[IF Len(b) = 1 THEN 1 ELSE j]]

RowAdd(a, b) ==
    LET w == IF Len(a) >= Len(b) THEN Len(a) ELSE Len(b)
    IN  [j \in 1..w |-> a[IF Len(a) = 1 THEN 1 ELSE j] + b[IF Len(b) = 1 THEN 1 ELSE j]]

\* torch.mm(a, W): a is N x k, W is k x m
MatMul(a, W) ==
    [v \in 1..Len(a) |->
        [j \in 1..Len(W[1]) |-> SumTo([i \in 1..Len(W) |-> a[v][i] * W[i][j]], Len(W))]]

\* t * norm with t N x w and norm N x 1
TMul(t, n) == [v \in 1..Len(t) |-> RowMul(t[v], n[v])]

\* t + bias with t N x w and bias of length w
TAddRow(t, b) == [v \in 1..Len(t) |-> RowAdd(t[v], b)]

Relu(t) == [v \in 1..Len(t) |-> [j \in 1..Len(t[v]) |-> IF t[v][j] > 0 THEN t[v][j] ELSE 0]]

ApplyActivation(a, t) == IF a = "relu" THEN Relu(t) ELSE t

\* nn.Dropout(p) in training mode: an element is zeroed or scaled by 1/(1-p)
DropScale(p) == 100 \div (100 - p)
DropoutApply(p, mask, t) ==
    [v \in 1..Len(t) |-> [j \in 1..Len(t[v]) |->
        IF mask[v][j] = 1 THEN t[v][j] * DropScale(p) ELSE 0]]

\* the masks the model draws: nothing dropped, or one element dropped
Masks(t) ==
    {[v \in 1..Len(t) |-> [j \in 1..Len(t[1]) |-> 1]]}
    \cup {[v \in 1..Len(t) |-> [j \in 1..Len(t[1]) |-> IF v = dv /\ j = dj THEN 0 ELSE 1]] :
             dv \in 1..Len(t), dj \in 1..Len(t[1])}

\* ---------------------------------------------------------------- graph
\* edge lists of at most MaxEdges edges, in nondecreasing order of (src, dst)
EdgeLe(e, f) == e[1] < f[1] \/ (e[1] = f[1] /\ e[2] <= f[2])
EdgeLists ==
    UNION {{s \in [1..k -> Nodes \X Nodes] :
                \A i \in 1..k : i < k => EdgeLe(s[i], s[i + 1])} : k \in 0..MaxEdges}

RECURSIVE SumRows(_, _, _, _, _)
\* sum of msg[e] over the edges e <= n that enter v, starting from a zero row of
\* width w
SumRows(msg, edges, v, n, w) ==
    IF n = 0 THEN Zeros(w)
    ELSE IF edges[n][2] = v
         THEN RowAdd(SumRows(msg, edges, v, n - 1, w), msg[n])
         ELSE SumRows(msg, edges, v, n - 1, w)

\* g.update_all(fn.copy_src(src='h', out='m'), fn.sum(msg='m', out='h'))
UpdateAll(edges, nh) ==
    LET m == [e \in 1..Len(edges) |-> nh[edges[e][1]]]
    IN  [v \in 1..Len(nh) |-> SumRows(m, edges, v, Len(edges), Len(nh[1]))]

\* ---------------------------------------------------------------- layers
\* GCNLayer.__init__; weight and biasval are the values reset_parameters drew
GCNLayerInit(in_feats, out_feats, activation, dropout, bias, weight, biasval) ==
    [cls        |-> "GCNLayer",
     norm       |-> None,
     weight     |-> weight,
     bias       |-> IF bias THEN biasval ELSE None,
     activation |-> activation,
     dropout    |-> IF dropout # 0 THEN dropout ELSE 0]

\* EglGCNLayer.__init__: the layer keeps the norm the graph has when it is built
EglGCNLayerInit(gnorm, in_feats, out_feats, activation, dropout, bias, weight, biasval) ==
    [cls        |-> "EglGCNLayer",
     norm       |-> gnorm,
     weight     |-> weight,
     bias       |-> IF bias THEN biasval ELSE None,
     activation |-> activation,
     dropout    |-> IF dropout # 0 THEN dropout ELSE 0]

LayerClasses == {"GCNLayer", "EglGCNLayer"}

NewLayer(cls, gnorm, in_feats, out_feats, activation, dropout, bias, weight, biasval) ==
    IF cls = "GCNLayer"
    THEN GCNLayerInit(in_feats, out_feats, activation, dropout, bias, weight, biasval)
    ELSE EglGCNLayerInit(gnorm, in_feats, out_feats, activation, dropout, bias, weight, biasval)

\* the statements of forward that both layer classes share
SrcNormalize(t, n) == TMul(t, n)
\* variant: the destination-side normalisation is left out
DstNormalize_Skip(t, n) == t
DstNormalize(t, n) == TMul(t, n)
\* variant: the bias is never added
AddBias_Skip(layer, t) == t
AddBias(layer, t) == IF layer.bias # None THEN TAddRow(t, layer.bias) ELSE t
Activate(layer, t) == IF layer.activation # "None" THEN ApplyActivation(layer.activation, t) ELSE t

\* GCNLayer.forward as a function of its argument, for a layer without dropout
GCNLayerForward(layer, edges, gnorm, x) ==
    Activate(layer,
        AddBias(layer,
            DstNormalize(UpdateAll(edges, SrcNormalize(MatMul(x, layer.weight), gnorm)),
                         gnorm)))

\* ---------------------------------------------------------------- ContextManager
\* the per-vertex program traced inside the zoomIn scope
NoExpr == [op |-> "none"]
NbFeat(f) == [op |-> "nb", f |-> f]
VFeat(f) == [op |-> "v", f |-> f]
MulExpr(a, b) == [op |-> "mul", a |-> a, b |-> b]
SumExpr(a) == [op |-> "sum", a |-> a]

\* h = sum([nb.h*nb.norm for nb in v.innbs])
ScopeSum == SumExpr(MulExpr(NbFeat("h"), NbFeat("norm")))
\* variant: the traced program is not multiplied by v.norm
ScopeNorm_Skip(x) == x
\* h = h * v.norm
ScopeNorm(x) == MulExpr(x, VFeat("norm"))

CMInit == [open |-> FALSE, edges |-> << >>, h |-> None, norm |-> None,
           out |-> NoExpr, ret |-> None]

RECURSIVE Width(_, _)
Width(x, nf) ==
    CASE x.op = "mul" -> LET a == Width(x.a, nf)
                             b == Width(x.b, nf)
                         IN  IF a >= b THEN a ELSE b
      [] x.op = "sum" -> Width(x.a, nf)
      [] OTHER        -> Len(nf[x.f][1])

RECURSIVE Eval(_, _, _, _, _)
\* the value of the traced program x at vertex v (u: the in-neighbour nb stands for)
Eval(x, v, u, edges, nf) ==
    CASE x.op = "v"   -> nf[x.f][v]
      [] x.op = "nb"  -> nf[x.f][u]
      [] x.op = "mul" -> RowMul(Eval(x.a, v, u, edges, nf), Eval(x.b, v, u, edges, nf))
      [] x.op = "sum" ->
            SumRows([e \in 1..Len(edges) |-> Eval(x.a, v, edges[e][1], edges, nf)],
                    edges, v, Len(edges), Width(x.a, nf))

\* dgl.backend.run_egl: the collected program evaluated at every vertex
BackendRun(c) ==
    LET nf == [h |-> c.h, norm |-> c.norm]
    IN  [v \in 1..Len(c.h) |-> Eval(c.out, v, 0, c.edges, nf)]

\* ---------------------------------------------------------------- networks
\* the weight and bias reset_parameters leaves in a layer of the network
NetWeight(in_feats, out_feats, seed) ==
    [i \in 1..in_feats |-> [j \in 1..out_feats |-> IF (i + j + seed) % 2 = 0 THEN 2 ELSE -1]]
NetBias(out_feats, seed) == [j \in 1..out_feats |-> IF (j + seed) % 2 = 0 THEN 1 ELSE -1]

RECURSIVE GCNHidden(_, _, _, _, _)
\* GCN: for i in range(n_layers - 1): layers.append(GCNLayer(g, n_hidden, n_hidden, activation, dropout))
GCNHidden(n_hidden, k, activation, dropout, seed) ==
    IF k <= 0 THEN << >>
    ELSE Append(GCNHidden(n_hidden, k - 1, activation, dropout, seed),
                GCNLayerInit(n_hidden, n_hidden, activation, dropout, TRUE,
                             NetWeight(n_hidden, n_hidden, seed + k), NetBias(n_hidden, seed + k)))

\* variant: the loop of the hidden layers runs n_layers times
GCNInit_ExtraHidden(in_feats, n_hidden, n_classes, n_layers, activation, dropout, seed) ==
    << GCNLayerInit(in_feats, n_hidden, activation, 0, TRUE,
                    NetWeight(in_feats, n_hidden, seed), NetBias(n_hidden, seed)) >>
    \o GCNHidden(n_hidden, n_layers, activation, dropout, seed)
    \o << GCNLayerInit(n_hidden, n_classes, "None", dropout, TRUE,
                       NetWeight(n_hidden, n_classes, seed + 1), NetBias(n_classes, seed + 1)) >>

\* GCN.__init__
GCNInit(in_feats, n_hidden, n_classes, n_layers, activation, dropout, seed) ==
    << GCNLayerInit(in_feats, n_hidden, activation, 0, TRUE,
                    NetWeight(in_feats, n_hidden, seed), NetBias(n_hidden, seed)) >>
    \o GCNHidden(n_hidden, n_layers - 1, activation, dropout, seed)
    \o << GCNLayerInit(n_hidden, n_classes, "None", dropout, TRUE,
                       NetWeight(n_hidden, n_classes, seed + 1), NetBias(n_classes, seed + 1)) >>

RECURSIVE EglGCNHidden(_, _, _, _, _, _)
\* EglGCN: for i in range(n_layers - 1): layers.append(EglGCNLayer(g, n_hidden, n_hidden, activation, dropout))
EglGCNHidden(gnorm, n_hidden, k, activation, dropout, seed) ==
    IF k <= 0 THEN << >>
    ELSE Append(EglGCNHidden(gnorm, n_hidden, k - 1, activation, dropout, seed),
                EglGCNLayerInit(gnorm, n_hidden, n_hidden, activation, dropout, TRUE,
                                NetWeight(n_hidden, n_hidden, seed + k), NetBias(n_hidden, seed + k)))

\* variant: the input layer is built with the network's dropout
EglGCNInit_InputDropout(gnorm, in_feats, n_hidden, n_classes, n_layers, activation, dropout, seed) ==
    << EglGCNLayerInit(gnorm, in_feats, n_hidden, activation, dropout, TRUE,
                       NetWeight(in_feats, n_hidden, seed), NetBias(n_hidden, seed)) >>
    \o EglGCNHidden(gnorm, n_hidden, n_layers - 1, activation, dropout, seed)
    \o << EglGCNLayerInit(gnorm, n_hidden, n_classes, "None", dropout, TRUE,
                          NetWeight(n_hidden, n_classes, seed + 1), NetBias(n_classes, seed + 1)) >>

\* EglGCN.__init__
EglGCNInit(gnorm, in_feats, n_hidden, n_classes, n_layers, activation, dropout, seed) ==
    << EglGCNLayerInit(gnorm, in_feats, n_hidden, activation, 0, TRUE,
                       NetWeight(in_feats, n_hidden, seed), NetBias(n_hidden, seed)) >>
    \o EglGCNHidden(gnorm, n_hidden, n_layers - 1, activation, dropout, seed)
    \o << EglGCNLayerInit(gnorm, n_hidden, n_classes, "None", dropout, TRUE,
                          NetWeight(n_hidden, n_classes, seed + 1), NetBias(n_classes, seed + 1)) >>

\* ---------------------------------------------------------------- state
VARIABLES
    g,          \* the graph: [edges, norm, h], h is g.ndata['h'] (None when absent)
    top,        \* what was constructed: the constructor's arguments
    layers,     \* the layers, in list order (a lone layer is a list of one)
    features,   \* the argument of the top-level forward
    li,         \* the position of the running layer in layers
    pc,         \* the statement the running forward is at
    hin,        \* the argument h of the running layer's forward
    hd,         \* h as torch.mm receives it
    h,          \* the local h of the running layer's forward
    cm,         \* the ContextManager of each layer
    trace,      \* the calls made so far: <<layer, call>>
    rets        \* the values the layers returned so far, in order

vars == <<g, top, layers, features, li, pc, hin, hd, h, cm, trace, rets>>

Cur == layers[li]
Log(ev) == Append(trace, <<li, ev>>)

\* the norm tensors, one for each number of nodes of norm 2 (every graph on
\* Nodes is drawn, so every other norm tensor is one of these renumbered)
NormTensors == {[v \in Nodes |-> <<IF v <= k THEN 2 ELSE 1>>] : k \in 0..NumNodes}
LayerWidths == {1}

\* a single layer, built directly
InitLayer ==
    /\ \E edges \in EdgeLists, n \in NormTensors : g = [edges |-> edges, norm |-> n, h |-> None]
    /\ \E cls \in LayerClasses, in_feats \in LayerWidths, out_feats \in LayerWidths,
          activation \in Activations, dropout \in DropoutArgs, bias \in BOOLEAN :
         /\ top = [cls |-> cls, in_feats |-> in_feats, out_feats |-> out_feats,
                   activation |-> activation, dropout |-> dropout, bias |-> bias]
         /\ \E weight \in [1..in_feats -> [1..out_feats -> WeightVals]],
               biasval \in [1..out_feats -> BiasVals] :
              /\ bias = FALSE => biasval = [j \in 1..out_feats |-> 1]
              /\ layers = << NewLayer(cls, g.norm, in_feats, out_feats, activation,
                                      dropout, bias, weight, biasval) >>
         /\ features \in [Nodes -> [1..in_feats -> FeatVals]]
    /\ li = 0
    /\ pc = "idle"
    /\ hin = None
    /\ hd = None
    /\ h = None
    /\ cm = [l \in 1..Len(layers) |-> CMInit]
    /\ trace = << >>
    /\ rets = << >>

\* a network GCN or EglGCN
NetClasses == {"GCN", "EglGCN"}
Seeds == {0, 1}
\* the graph of the networks: a ring of MaxEdges edges, node 1 of norm 2
NetEdges == [k \in 1..MaxEdges |-> <<((k - 1) % NumNodes) + 1, (k % NumNodes) + 1>>]
NetNorm == [v \in Nodes |-> <<IF v = 1 THEN 2 ELSE 1>>]
NetFeatures(w) == {[v \in Nodes |-> [j \in 1..w |-> IF v = s THEN 1 ELSE j]] : s \in {1, NumNodes}}

InitNet ==
    /\ g = [edges |-> NetEdges, norm |-> NetNorm, h |-> None]
    /\ \E cls \in NetClasses, in_feats \in 1..MaxWidth, n_hidden \in 1..MaxWidth,
          n_classes \in 1..MaxWidth, n_layers \in -1..MaxLayers,
          activation \in Activations, dropout \in DropoutArgs, seed \in Seeds :
         /\ top = [cls |-> cls, in_feats |-> in_feats, n_hidden |-> n_hidden,
                   n_classes |-> n_classes, n_layers |-> n_layers,
                   activation |-> activation, dropout |-> dropout]
         /\ layers = IF cls = "GCN"
                     THEN GCNInit(in_feats, n_hidden, n_classes, n_layers,
                                  activation, dropout, seed)
                     ELSE EglGCNInit(g.norm, in_feats, n_hidden, n_classes, n_layers,
                                     activation, dropout, seed)
         /\ features \in NetFeatures(in_feats)
    /\ li = 0
    /\ pc = "idle"
    /\ hin = None
    /\ hd = None
    /\ h = None
    /\ cm = [l \in 1..Len(layers) |-> CMInit]
    /\ trace = << >>
    /\ rets = << >>

\* ---------------------------------------------------------------- forward
\* module(features): GCN.forward / EglGCN.forward enter their first layer,
\* a lone layer is entered directly
Forward ==
    /\ pc = "idle"
    /\ li' = 1
    /\ hin' = features
    /\ h' = features
    /\ pc' = "dropout"
    /\ UNCHANGED <<g, top, layers, features, hd, cm, trace, rets>>

\* if self.dropout: h = self.dropout(h)
StepDropout ==
    /\ pc = "dropout"
    /\ IF Cur.dropout # 0
       THEN /\ \E mask \in Masks(h) : h' = DropoutApply(Cur.dropout, mask, h)
            /\ trace' = Log("dropout")
       ELSE UNCHANGED <<h, trace>>
    /\ hd' = h'
    /\ pc' = "mm"
    /\ UNCHANGED <<g, top, layers, features, li, hin, cm, rets>>

\* h = torch.mm(h, self.weight)
StepMM ==
    /\ pc = "mm"
    /\ h' = MatMul(h, Cur.weight)
    /\ pc' = IF Cur.cls = "GCNLayer" THEN "srcnorm" ELSE "zoomIn"
    /\ UNCHANGED <<g, top, layers, features, li, hin, hd, cm, trace, rets>>

\* GCNLayer: h = h * self.g.ndata['norm']; self.g.ndata['h'] = h
StepSrcNorm ==
    /\ pc = "srcnorm"
    /\ h' = SrcNormalize(h, g.norm)
    /\ g' = [g EXCEPT !.h = h']
    /\ pc' = "update_all"
    /\ UNCHANGED <<top, layers, features, li, hin, hd, cm, trace, rets>>

\* GCNLayer: self.g.update_all(fn.copy_src(src='h', out='m'), fn.sum(msg='m', out='h'))
StepUpdateAll ==
    /\ pc = "update_all"
    /\ g' = [g EXCEPT !.h = UpdateAll(g.edges, g.h)]
    /\ trace' = Log("update_all")
    /\ pc' = "pop"
    /\ UNCHANGED <<top, layers, features, li, hin, hd, h, cm, rets>>

\* variant: the reduced feature is dropped from the graph but the local h is kept
StepPopDstNorm_KeepLocal ==
    /\ pc = "pop"
    /\ h' = DstNormalize(h, g.norm)
    /\ g' = [g EXCEPT !.h = None]
    /\ pc' = "bias"
    /\ UNCHANGED <<top, layers, features, li, hin, hd, cm, trace, rets>>

\* GCNLayer: h = self.g.ndata.pop('h'); h = h * self.g.ndata['norm']
StepPopDstNorm ==
    /\ pc = "pop"
    /\ h' = DstNormalize(g.h, g.norm)
    /\ g' = [g EXCEPT !.h = None]
    /\ pc' = "bias"
    /\ UNCHANGED <<top, layers, features, li, hin, hd, cm, trace, rets>>

\* EglGCNLayer: with self.cm.zoomIn(namespace=..., graph=graph,
\*                                  node_feats={'h': h, 'norm': self.norm}) as v:
StepZoomIn ==
    /\ pc = "zoomIn"
    /\ cm' = [cm EXCEPT ![li] = [open |-> TRUE, edges |-> g.edges, h |-> h,
                                 norm |-> Cur.norm, out |-> NoExpr, ret |-> None]]
    /\ trace' = Log("zoomIn")
    /\ pc' = "scope_sum"
    /\ UNCHANGED <<g, top, layers, features, li, hin, hd, h, rets>>

\* EglGCNLayer: h = sum([nb.h*nb.norm for nb in v.innbs])
StepScopeSum ==
    /\ pc = "scope_sum"
    /\ h' = ScopeSum
    /\ pc' = "scope_norm"
    /\ UNCHANGED <<g, top, layers, features, li, hin, hd, cm, trace, rets>>

\* EglGCNLayer: h = h * v.norm
StepScopeNorm ==
    /\ pc = "scope_norm"
    /\ h' = ScopeNorm(h)
    /\ pc' = "collect"
    /\ UNCHANGED <<g, top, layers, features, li, hin, hd, cm, trace, rets>>

\* EglGCNLayer: v.collect_output(h), the last statement of the with block
StepCollect ==
    /\ pc = "collect"
    /\ cm' = [cm EXCEPT ![li].out = h]
    /\ trace' = Log("collect_output")
    /\ pc' = "exit"
    /\ UNCHANGED <<g, top, layers, features, li, hin, hd, h, rets>>

\* EglGCNLayer: the with block is left
StepScopeExit ==
    /\ pc = "exit"
    /\ cm' = [cm EXCEPT ![li].open = FALSE]
    /\ trace' = Log("exit")
    /\ pc' = "zoomOut"
    /\ UNCHANGED <<g, top, layers, features, li, hin, hd, h, rets>>

\* variant: the aggregation is done by update_all on the graph instead
StepZoomOut_UpdateAll ==
    /\ pc = "zoomOut"
    /\ h' = DstNormalize(UpdateAll(g.edges, SrcNormalize(cm[li].h, Cur.norm)), Cur.norm)
    /\ trace' = Log("update_all")
    /\ pc' = "bias"
    /\ UNCHANGED <<g, top, layers, features, li, hin, hd, cm, rets>>

\* EglGCNLayer: h = self.cm.zoomOut()
StepZoomOut ==
    /\ pc = "zoomOut"
    /\ LET r == BackendRun(cm[li])
       IN  /\ cm' = [cm EXCEPT ![li].ret = r]
           /\ h' = r
    /\ trace' = Log("zoomOut")
    /\ pc' = "bias"
    /\ UNCHANGED <<g, top, layers, features, li, hin, hd, rets>>

\* if self.bias is not None: h = h + self.bias
StepBias ==
    /\ pc = "bias"
    /\ h' = AddBias(Cur, h)
    /\ pc' = "activation"
    /\ UNCHANGED <<g, top, layers, features, li, hin, hd, cm, trace, rets>>

\* if self.activation: h = self.activation(h)
StepActivation ==
    /\ pc = "activation"
    /\ h' = Activate(Cur, h)
    /\ trace' = IF Cur.activation # "None" THEN Log("activation") ELSE trace
    /\ pc' = "return"
    /\ UNCHANGED <<g, top, layers, features, li, hin, hd, cm, rets>>

\* return h; in a network the loop "for layer in self.layers: h = layer(h)"
\* enters the next layer with it, or the network returns it
StepReturn ==
    /\ pc = "return"
    /\ trace' = Log("return")
    /\ IF li < Len(layers)
       THEN /\ li' = li + 1
            /\ hin' = h
            /\ pc' = "dropout"
       ELSE /\ pc' = "done"
            /\ UNCHANGED <<li, hin>>
    /\ rets' = Append(rets, h)
    /\ UNCHANGED <<g, top, layers, features, hd, h, cm>>

Next ==
    \/ Forward
    \/ StepDropout
    \/ StepMM
    \/ StepSrcNorm
    \/ StepUpdateAll
    \/ StepPopDstNorm
    \/ StepZoomIn
    \/ StepScopeSum
    \/ StepScopeNorm
    \/ StepCollect
    \/ StepScopeExit
    \/ StepZoomOut
    \/ StepBias
    \/ StepActivation
    \/ StepReturn

Spec == InitLayer /\ [][Next]_vars
SpecNet == InitNet /\ [][Next]_vars

\* ---------------------------------------------------------------- properties
\* what the claims speak of, written out element by element

\* (x * W)[u][j]
ProjAt(x, W, u, j) == SumTo([i \in 1..Len(W) |-> x[u][i] * W[i][j]], Len(W))

\* sum over every in-edge (u, v) of norm[u] * (x * W)[u][j], one term per edge
AggAt(x, W, v, j) ==
    SumTo([e \in 1..Len(g.edges) |->
              IF g.edges[e][2] = v
              THEN g.norm[g.edges[e][1]][1] * ProjAt(x, W, g.edges[e][1], j)
              ELSE 0],
          Len(g.edges))

ActAt(a, x) == IF a = "relu" /\ x < 0 THEN 0 ELSE x
BiasAt(layer, j) == IF layer.bias = None THEN 0 ELSE layer.bias[j]
OutWidth(layer) == Len(layer.weight[1])
InDegree(v) == Cardinality({e \in 1..Len(g.edges) : g.edges[e][2] = v})

Returned == pc = "done"
CallsOf(l) == SelectSeq(trace, LAMBDA ev : ev[1] = l)
Called(l, name) == \E k \in 1..Len(trace) : trace[k] = <<l, name>>
CMCalls(l) ==
    SelectSeq(trace, LAMBDA ev : ev[1] = l /\ ev[2] \in {"zoomIn", "collect_output", "exit", "zoomOut"})
IsPrefix(a, b) == Len(a) <= Len(b) /\ \A k \in 1..Len(a) : a[k] = b[k]

\* C1: GCNLayer.forward without dropout, bias and activation returns, for every
\* node v, norm[v] * (sum over the in-edges (u, v) of norm[u] * (h * W)[u]).
C1_GCNLayerFormula ==
    (Returned /\ Cur.cls = "GCNLayer" /\ Cur.dropout = 0 /\ Cur.bias = None
              /\ Cur.activation = "None")
    => /\ Len(h) = NumNodes
       /\ \A v \in Nodes :
            /\ Len(h[v]) = OutWidth(Cur)
            /\ \A j \in 1..OutWidth(Cur) :
                 h[v][j] = g.norm[v][1] * AggAt(hin, Cur.weight, v, j)

\* a plain GCNLayer has returned a nonzero value for a node of norm 2 that has
\* two in-edges, one of them from a node of another norm
C1_Witness ==
    /\ Returned /\ Cur.cls = "GCNLayer" /\ Cur.dropout = 0 /\ Cur.bias = None
    /\ Cur.activation = "None"
    /\ \E v \in Nodes :
         /\ InDegree(v) = 2
         /\ g.norm[v][1] = 2
         /\ h[v][1] # 0
         /\ \E e \in 1..Len(g.edges) : g.edges[e][2] = v /\ g.norm[g.edges[e][1]][1] = 1

\* C2: EglGCNLayer.forward never calls update_all; its ContextManager calls are
\* zoomIn, collect_output (once, inside the scope), the exit of the scope, zoomOut
\* (once), in this order; bias and activation are applied to what zoomOut returned.
C2_EglDelegates ==
    (li >= 1 /\ Cur.cls = "EglGCNLayer")
    => /\ ~Called(li, "update_all")
       /\ g.h = None
       /\ IsPrefix(CMCalls(li), <<<<li, "zoomIn">>, <<li, "collect_output">>,
                                 <<li, "exit">>, <<li, "zoomOut">>>>)
       /\ pc = "exit" => cm[li].open
       /\ pc \in {"bias", "activation", "return", "done"} =>
            /\ Len(CMCalls(li)) = 4
            /\ ~cm[li].open
            /\ cm[li].ret # None
       /\ pc = "bias" => h = cm[li].ret
       /\ Returned =>
            \A v \in Nodes : \A j \in 1..OutWidth(Cur) :
                h[v][j] = ActAt(Cur.activation, cm[li].ret[v][j] + BiasAt(Cur, j))

\* an EglGCNLayer with bias and relu has returned, and the bias changed what
\* zoomOut returned
C2_Witness ==
    /\ Returned /\ Cur.cls = "EglGCNLayer"
    /\ Cur.bias # None /\ Cur.activation = "relu"
    /\ Len(g.edges) > 0
    /\ h # cm[li].ret
    /\ \E v \in Nodes : cm[li].ret[v][1] # 0

\* C3: without dropout, EglGCNLayer.forward returns what GCNLayer.forward returns
\* for the same graph, norm, weight, bias, activation and input.
\* (GCNLayerForward is GCNLayer.forward as a function; the first conjunct checks
\* that the GCNLayer runs return it, the second that the EglGCNLayer runs do.)
C3_EglEqualsGCN ==
    /\ (Returned /\ Cur.cls = "GCNLayer" /\ Cur.dropout = 0)
       => h = GCNLayerForward(Cur, g.edges, g.norm, hin)
    /\ (Returned /\ Cur.cls = "EglGCNLayer" /\ Cur.dropout = 0)
       => h = GCNLayerForward(Cur, g.edges, g.norm, hin)

\* an EglGCNLayer without dropout has returned a nonzero value for a node of
\* norm 2 with two in-edges
C3_Witness ==
    /\ Returned /\ Cur.cls = "EglGCNLayer" /\ Cur.dropout = 0
    /\ \E v \in Nodes : InDegree(v) = 2 /\ g.norm[v][1] = 2 /\ h[v][1] # 0
    /\ \E v \in Nodes : g.norm[v][1] = 1

\* the aggregate after the destination-side normalisation: what GCNLayer has in h
\* after "h = h * norm" following update_all, what zoomOut returned in EglGCNLayer
NormalisedAggregate ==
    IF Cur.cls = "GCNLayer"
    THEN TMul(UpdateAll(g.edges, TMul(MatMul(hd, Cur.weight), g.norm)), g.norm)
    ELSE cm[li].ret

\* C5: in both layer classes the result is activation(normalised aggregate + bias):
\* the bias is added after the destination-side normalisation, unscaled, and goes
\* through the activation; no bias adds nothing, no activation applies nothing.
C5_BiasThenActivation ==
    Returned
    => LET na == NormalisedAggregate
       IN  \A v \in Nodes : \A j \in 1..OutWidth(Cur) :
              h[v][j] = ActAt(Cur.activation, na[v][j] + BiasAt(Cur, j))

\* a layer with a bias and relu has returned; at one node the aggregate is
\* negative and the bias lifts it to zero or more (adding the bias after relu
\* would give another value), and a node of norm 2 got a positive value (scaling
\* the bias by norm would give another value)
C5_Witness ==
    /\ Returned /\ Cur.bias # None /\ Cur.activation = "relu"
    /\ \E v \in Nodes :
         /\ NormalisedAggregate[v][1] < 0
         /\ NormalisedAggregate[v][1] + BiasAt(Cur, 1) >= 0
    /\ \E v \in Nodes : g.norm[v][1] = 2 /\ h[v][1] > 0

\* C7: a node without in-edges gets activation(bias), or activation(0) without
\* bias, whatever its own feature and its norm are.
C7_NoInEdges ==
    Returned
    => \A v \in Nodes :
         InDegree(v) = 0 =>
            \A j \in 1..OutWidth(Cur) : h[v][j] = ActAt(Cur.activation, BiasAt(Cur, j))

\* a layer has returned on a graph with edges where a node of norm 2 and a
\* nonzero projected feature has no in-edge
C7_Witness ==
    /\ Returned
    /\ Len(g.edges) > 0
    /\ \E v \in Nodes :
         /\ InDegree(v) = 0
         /\ g.norm[v][1] = 2
         /\ ProjAt(hd, Cur.weight, v, 1) # 0

InWidth(layer) == Len(layer.weight)
LayerClassOf(netcls) == IF netcls = "GCN" THEN "GCNLayer" ELSE "EglGCNLayer"
Returns == SelectSeq(trace, LAMBDA ev : ev[2] = "return")

\* C4: a network holds the input layer in_feats -> n_hidden, n_layers - 1 hidden
\* layers n_hidden -> n_hidden and the output layer n_hidden -> n_classes, in this
\* order: n_layers + 1 layers for n_layers >= 1, 2 layers for n_layers <= 1.
\* forward runs them in list order, each on what the one before returned, and
\* returns what the last one returned, of width n_classes.
C4_NetLayers ==
    LET L == Len(layers)
    IN  /\ top.n_layers >= 1 => L = top.n_layers + 1
        /\ top.n_layers <= 1 => L = 2
        /\ \A k \in 1..L : layers[k].cls = LayerClassOf(top.cls)
        /\ InWidth(layers[1]) = top.in_feats /\ OutWidth(layers[1]) = top.n_hidden
        /\ \A k \in 2..(L - 1) :
              InWidth(layers[k]) = top.n_hidden /\ OutWidth(layers[k]) = top.n_hidden
        /\ InWidth(layers[L]) = top.n_hidden /\ OutWidth(layers[L]) = top.n_classes
        /\ \A k \in 1..(L - 1) : OutWidth(layers[k]) = InWidth(layers[k + 1])
        /\ \A k \in 1..Len(trace) : \A m \in k..Len(trace) : trace[k][1] <= trace[m][1]
        /\ Len(Returns) = Len(rets)
        /\ \A k \in 1..Len(Returns) : Returns[k] = <<k, "return">>
        /\ li >= 1 => hin = IF li = 1 THEN features ELSE rets[li - 1]
        /\ li >= 1 => Len(rets) = IF Returned THEN L ELSE li - 1
        /\ \A k \in 1..Len(rets) :
              Len(rets[k]) = NumNodes /\ \A v \in Nodes : Len(rets[k][v]) = OutWidth(layers[k])
        /\ Returned =>
              /\ h = rets[L]
              /\ \A v \in Nodes : Len(h[v]) = top.n_classes

\* a network with a hidden layer, whose widths differ from layer to layer, has
\* returned a nonzero value
C4_Witness ==
    /\ Returned
    /\ top.n_layers >= 2
    /\ top.in_feats # top.n_hidden /\ top.n_hidden # top.n_classes
    /\ Len(rets) = top.n_layers + 1
    /\ \E v \in Nodes : h[v][1] # 0

\* C6: whatever activation and dropout a network is built with, its input layer
\* never applies dropout, its output layer never applies an activation and
\* applies the given dropout, every hidden layer applies the given activation
\* and the given dropout.
C6_NetDropoutActivation ==
    LET L == Len(layers)
        PastDropout(k) == li > k \/ (li = k /\ pc # "dropout")
        PastActivation(k) == li > k \/ (li = k /\ pc \in {"return", "done"})
    IN  /\ layers[1].dropout = 0
        /\ ~Called(1, "dropout")
        /\ layers[L].activation = "None"
        /\ ~Called(L, "activation")
        /\ layers[L].dropout = top.dropout
        /\ PastDropout(L) => (Called(L, "dropout") <=> top.dropout # 0)
        /\ \A k \in 2..(L - 1) :
              /\ layers[k].activation = top.activation
              /\ layers[k].dropout = top.dropout
              /\ PastDropout(k) => (Called(k, "dropout") <=> top.dropout # 0)
              /\ PastActivation(k) => (Called(k, "activation") <=> top.activation # "None")

\* a network built with relu and dropout has returned; its hidden layer applied
\* both, its output layer the dropout
C6_Witness ==
    /\ Returned
    /\ top.n_layers >= 2 /\ top.activation = "relu" /\ top.dropout # 0
    /\ Called(2, "dropout") /\ Called(2, "activation")
    /\ Called(Len(layers), "dropout")

====
